---- MODULE Spec2Model ----
(***************************************************************************)
(* Model of the language package generator: main() of                      *)
(* language_package_generator.py (parse, concurrent per-language           *)
(* translation, AI-polish gate, SRT writes, combined DOCX write) and of    *)
(* the translator package functions it calls.                              *)
(*                                                                         *)
(* Texts are sequences of one-character strings so that str.strip(),       *)
(* str.splitlines() and ' '.join() are computed, not assumed.  Timestamps  *)
(* and language codes are opaque strings.                                  *)
(*                                                                         *)
(* A behaviour is either one run of main() (entry = "main") or one direct  *)
(* use of the translator package functions translate_lines and             *)
(* polish_texts on an arbitrary cue list (entry = "lib").                  *)
(***************************************************************************)
EXTENDS Integers, Sequences, FiniteSets, TLC

\* ---------------------------------------------------------------- bounds
\* Longest source (number of cue blocks) and longest --output_languages list.
MaxCues == 2
MaxLangs == 2

\* Most runs started from one window.
MaxRuns == 2

\* the user changes the inputs of the window at most this many times
MaxGestures == 3

\* ------------------------------------------------------- python strings
Whitespace == {" ", "\n", "\t"}

RECURSIVE LStrip(_)
LStrip(s) ==
    IF s = << >> THEN << >>
    ELSE IF Head(s) \in Whitespace THEN LStrip(Tail(s)) ELSE s

RECURSIVE RStrip(_)
RStrip(s) ==
    IF s = << >> THEN << >>
    ELSE IF s[Len(s)] \in Whitespace THEN RStrip(SubSeq(s, 1, Len(s) - 1)) ELSE s

\* str.strip()
Strip(s) == RStrip(LStrip(s))

\* index of the first "\n" at or after position i, 0 when there is none
RECURSIVE FirstNewline(_, _)
FirstNewline(s, i) ==
    IF i > Len(s) THEN 0
    ELSE IF s[i] = "\n" THEN i ELSE FirstNewline(s, i + 1)

\* str.splitlines(): no trailing empty line, "" gives no line at all
RECURSIVE SplitLines(_)
SplitLines(s) ==
    IF s = << >> THEN << >>
    ELSE LET n == FirstNewline(s, 1) IN
         IF n = 0 THEN << s >>
         ELSE << SubSeq(s, 1, n - 1) >> \o SplitLines(SubSeq(s, n + 1, Len(s)))

\* ' '.join(parts)
RECURSIVE JoinSpace(_)
JoinSpace(parts) ==
    IF parts = << >> THEN << >>
    ELSE IF Len(parts) = 1 THEN parts[1]
    ELSE parts[1] \o << " " >> \o JoinSpace(Tail(parts))

\* str.upper() on the language codes in use
Upper(s) == CASE s = "en" -> "EN" [] s = "fr" -> "FR" [] s = "de" -> "DE" [] OTHER -> s

Range(s) == {s[i] : i \in DOMAIN s}

SeqsUpTo(S, n) == UNION {[1..k -> S] : k \in 0..n}

\* ------------------------------------------------------------- inputs
\* Destination language codes the user can request, and the source language.
Langs == {"fr", "de"}
InputLanguage == "en"

\* The input path, as Path.stem and Path.suffix.
InputStem == "movie"
InputSuffix == ".srt"

\* The cue blocks source files are made of, in time order, as the groups
\* one regex match yields: (num, start, end, text), text being the raw body
\* (it may span lines).
SourceBlocks ==
    << [num |-> "1", start |-> "00:00:01,000", end |-> "00:00:02,000",
        text |-> << "H", "i", "\n", " ", "y", "o" >>],
       [num |-> "2", start |-> "00:00:03,000", end |-> "00:00:04,000",
        text |-> << "B", "y", "e" >>],
       [num |-> "7", start |-> "00:00:05,000", end |-> "00:00:06,000",
        text |-> << >>] >>

\* The match lists re.findall returns for the source files considered: up to
\* MaxCues of the blocks, in time order.  \s+ in the pattern eats all the
\* whitespace after the timestamps, so a body starts with a non-blank
\* character unless the file ends there: only the last match can have an
\* empty body (the empty block is the last one).  A file without a cue block
\* gives no match.
SourceFiles ==
    UNION { { [i \in 1..k |-> SourceBlocks[pick[i]]] :
                pick \in { f \in [1..k -> DOMAIN SourceBlocks] :
                             \A i \in 1..(k - 1) : f[i] < f[i + 1] } } :
            k \in 0..MaxCues }

\* The cue blocks of the files read back after a write: the second one has
\* a whitespace-only line under its text.
RoundTripBlocks ==
    << SourceBlocks[1],
       [num |-> "2", start |-> "00:00:03,000", end |-> "00:00:04,000",
        text |-> << "B", "y", "e", "\n", " " >>],
       SourceBlocks[3] >>

\* a cue block as it stands in a file; the block without text ends the file
RawBlock(b) ==
    << b.num, "\n", b.start, " --> ", b.end, "\n" >> \o b.text
        \o (IF b.text = << >> THEN << >> ELSE << "\n", "\n" >>)

RECURSIVE RawFile(_)
RawFile(blocks) ==
    IF blocks = << >> THEN << >>
    ELSE RawBlock(Head(blocks)) \o RawFile(Tail(blocks))

\* the contents of the input files read back after a write: one block at
\* least, MaxCues at most, in time order
RoundTripFiles ==
    UNION { { RawFile([i \in 1..k |-> RoundTripBlocks[pick[i]]]) :
                pick \in { f \in [1..k -> DOMAIN RoundTripBlocks] :
                             \A i \in 1..(k - 1) : f[i] < f[i + 1] } } :
            k \in 1..MaxCues }

\* Cue lists the library functions can be handed directly; text may be
\* whitespace-only here.
LibCues ==
    { [start |-> "00:00:01,000", end |-> "00:00:02,000", text |-> << "H", "i" >>],
      [start |-> "00:00:03,000", end |-> "00:00:04,000", text |-> << " " >>],
      [start |-> "00:00:05,000", end |-> "00:00:06,000", text |-> << >>] }

\* ------------------------------------------------------------ python dict
\* A dict is the sequence of its (key, value) items in insertion order.
EmptyDict == << >>

DictKeys(d) == [i \in DOMAIN d |-> d[i].key]

DictHas(d, k) == \E i \in DOMAIN d : d[i].key = k

DictGet(d, k) == d[CHOOSE i \in DOMAIN d : d[i].key = k].value

\* d[k] = v: a new key goes last, an existing key keeps its place
DictSet(d, k, v) ==
    IF DictHas(d, k)
    THEN [i \in DOMAIN d |-> IF d[i].key = k THEN [key |-> k, value |-> v] ELSE d[i]]
    ELSE Append(d, [key |-> k, value |-> v])

\* ------------------------------------------------------------ exceptions
\* An exception is its type and the language codes its message mentions.
NoException == [type |-> "None", langs |-> {}]

\* What translator.translate can raise: deep_translator's RequestError has no
\* arguments; a connection error of the HTTP layer quotes the request URL,
\* which holds the target language.
BackendExceptions(dest) ==
    { [type |-> "RequestError", langs |-> {}],
      [type |-> "ConnectionError", langs |-> {dest}] }

\* ------------------------------------------------------------- parse_srt
\* clean_text of one match: the stripped lines of the body joined by spaces
CleanText(text) ==
    LET lines == SplitLines(text)
    IN  JoinSpace([j \in DOMAIN lines |-> Strip(lines[j])])

parse_srt(matches) ==
    [i \in DOMAIN matches |->
        [num |-> matches[i].num, start |-> matches[i].start,
         end |-> matches[i].end, text |-> CleanText(matches[i].text)]]

\* re.findall(pattern, content) on a file given as its tokens: a digit, a
\* timestamp and the arrow are one token each, any other character is a
\* token of its own.
Digits == {"0", "1", "2", "3", "4", "5", "6", "7", "8", "9"}

Timestamps ==
    {"00:00:01,000", "00:00:02,000", "00:00:03,000", "00:00:04,000",
     "00:00:05,000", "00:00:06,000"}

\* where a greedy run of tokens of S that starts at i ends (\d+, \s+)
RECURSIVE SkipRun(_, _, _)
SkipRun(content, i, S) ==
    IF i <= Len(content) /\ content[i] \in S
    THEN SkipRun(content, i + 1, S) ELSE i

\* where the lazy group ([\s\S]*?) that starts at i stops: the first
\* position followed by \n\n, or the end of the content (?=\n\n|\Z)
RECURSIVE BodyEnd(_, _)
BodyEnd(content, i) ==
    IF i > Len(content) THEN i
    ELSE IF i < Len(content) /\ content[i] = "\n" /\ content[i + 1] = "\n"
    THEN i ELSE BodyEnd(content, i + 1)

\* the digits of (\d+) as one string
RECURSIVE JoinDigits(_)
JoinDigits(run) ==
    IF run = << >> THEN "" ELSE Head(run) \o JoinDigits(Tail(run))

\* whether the pattern matches at position i
MatchesAt(content, i) ==
    LET d == SkipRun(content, i, Digits)
        t == SkipRun(content, d, Whitespace)
    IN  /\ d > i
        /\ t > d
        /\ t + 2 <= Len(content)
        /\ content[t] \in Timestamps
        /\ content[t + 1] = " --> "
        /\ content[t + 2] \in Timestamps
        /\ SkipRun(content, t + 3, Whitespace) > t + 3

\* the groups of the match at position i and the position it ends at
MatchAt(content, i) ==
    LET d == SkipRun(content, i, Digits)
        t == SkipRun(content, d, Whitespace)
        b == SkipRun(content, t + 3, Whitespace)
        e == BodyEnd(content, b)
    IN  [groups |-> [num |-> JoinDigits(SubSeq(content, i, d - 1)),
                     start |-> content[t], end |-> content[t + 2],
                     text |-> SubSeq(content, b, e - 1)],
         next |-> e]

\* the non-overlapping matches from position i on, leftmost first
RECURSIVE FindFrom(_, _)
FindFrom(content, i) ==
    IF i > Len(content) THEN << >>
    ELSE IF MatchesAt(content, i)
    THEN << MatchAt(content, i).groups >>
            \o FindFrom(content, MatchAt(content, i).next)
    ELSE FindFrom(content, i + 1)

srt_findall(content) == FindFrom(content, 1)

\* ------------------------------------------------------- translate_lines
\* The languages the translation backend accepts as a target.
Supported(lang) == lang \in Langs \cup {InputLanguage}

\* The translation backend as a function of (text, source, target).
GoogleTranslate(text, src, dest) == << dest >> \o text

\* the text reaches the backend whenever it is not the empty string
CallsBackend_NoStrip(s) == s.text # << >>

\* translate_lines calls the backend for s iff s['text'].strip() is truthy
CallsBackend(s) == Strip(s.text) # << >>

\* one iteration of the loop of translate_lines whose backend call succeeds
TranslatedEntry(s, src, dest) ==
    [start |-> s.start, end |-> s.end,
     text |-> IF CallsBackend(s) THEN GoogleTranslate(s.text, src, dest) ELSE << >>]

\* the calls of translator.translate task k has made, once its loop has
\* gone over cue i
Called(calls, k, i, s) ==
    IF CallsBackend(s) THEN [calls EXCEPT ![k] = Append(@, i)] ELSE calls

\* the calls of translator.translate a loop over the first n cues makes
RECURSIVE CallsUpTo(_, _)
CallsUpTo(subtitles, n) ==
    IF n = 0 THEN << >>
    ELSE IF CallsBackend(subtitles[n])
         THEN Append(CallsUpTo(subtitles, n - 1), n)
         ELSE CallsUpTo(subtitles, n - 1)

\* translate_lines with blank cues skipped instead of kept as empty text
translate_lines_SkipBlank(subtitles, src, dest) ==
    LET kept == SelectSeq(subtitles, CallsBackend)
    IN  [i \in DOMAIN kept |-> TranslatedEntry(kept[i], src, dest)]

\* translate_lines when no backend call raises
translate_lines(subtitles, src, dest) ==
    [i \in DOMAIN subtitles |-> TranslatedEntry(subtitles[i], src, dest)]

\* ---------------------------------------------------------- polish_texts
\* response.choices[0].message.content of the polishing backend
ChatCompletion(text, language) == << " ", language >> \o text \o << "\n" >>

\* ai_polisher.py line 20: a blank text never reaches the backend
CallsPolishBackend(text) == Strip(text) # << >>

\* the failed text dropped instead of kept
PolishedText_EmptyOnFailure(text, language, failed) ==
    IF ~CallsPolishBackend(text) \/ failed THEN << >>
    ELSE Strip(ChatCompletion(text, language))

\* one iteration of the loop over texts; failed: the backend call raised
PolishedText(text, language, failed) ==
    IF ~CallsPolishBackend(text) THEN << >>
    ELSE IF failed THEN text
    ELSE Strip(ChatCompletion(text, language))

\* polish_texts(translations, language); failing: the indices whose backend
\* call raises (all of them when the client was never created)
polish_texts(buffer, language, failing) ==
    [i \in DOMAIN buffer |->
        [start |-> buffer[i].start, end |-> buffer[i].end,
         text |-> PolishedText(buffer[i].text, language, i \in failing)]]

\* ------------------------------------------------------------- write_srt
\* the numbering started at 0, as enumerate does by default
SrtBlock_ZeroBased(i, entry) ==
    << ToString(i - 1), "\n", entry.start, " --> ", entry.end, "\n" >>
        \o entry.text \o << "\n", "\n" >>

\* What the three f.write calls of one loop iteration put in the file.
SrtBlock(i, entry) ==
    << ToString(i), "\n", entry.start, " --> ", entry.end, "\n" >>
        \o entry.text \o << "\n", "\n" >>

RECURSIVE SrtBlocks(_, _)
SrtBlocks(subtitles, i) ==
    IF i > Len(subtitles) THEN << >>
    ELSE SrtBlock(i, subtitles[i]) \o SrtBlocks(subtitles, i + 1)

\* the content of the file write_srt leaves
write_srt(subtitles) == SrtBlocks(subtitles, 1)

\* ------------------------------------------------------------ write_docx
\* the header without the column of the original language
DocxHeader_NoOriginal(order, input_language) == << "Timestamp" >> \o order

DocxHeader(order, input_language) ==
    << "Timestamp" >> \o order \o << Upper(input_language) >>

\* the cell of a target language column in row i
TranslatedCell(trans, lang_code, i) ==
    IF DictHas(trans, lang_code)
    THEN DictGet(trans, lang_code)[i].text
    ELSE << >>

\* the columns taken from the items of the dict instead of the request list
ColumnLanguage_DictOrder(trans, order, c) ==
    IF c - 1 \in DOMAIN trans THEN trans[c - 1].key ELSE order[c - 1]

\* the language whose text fills column c (1-based) of a data row
ColumnLanguage(trans, order, c) == order[c - 1]

DocxRow(original, trans, order, input_language, i) ==
    LET ncols == Len(DocxHeader(order, input_language))
        entry == original[i]
    IN  [c \in 1..ncols |->
            IF c = ncols THEN entry.text
            ELSE IF c = 1 THEN entry.start \o " --> " \o entry.end
            ELSE TranslatedCell(trans,
                                ColumnLanguage(trans, order, c), i)]

\* the buffer looked up without the `in` test: a missing one raises too
DocxRaises_MissingBuffer(original, trans, order) ==
    \E k \in DOMAIN order :
        \/ ~DictHas(trans, order[k]) /\ Len(original) > 0
        \/ /\ DictHas(trans, order[k])
           /\ Len(DictGet(trans, order[k])) < Len(original)

\* translations[lang][i] raises IndexError when a present buffer is too short
DocxRaises(original, trans, order) ==
    \E k \in DOMAIN order :
        /\ DictHas(trans, order[k])
        /\ Len(DictGet(trans, order[k])) < Len(original)

\* the table of the saved document: the header row, then one row per cue
write_docx(original, trans, order, input_language) ==
    << DocxHeader(order, input_language) >>
        \o [i \in DOMAIN original |->
                DocxRow(original, trans, order,
                        input_language, i)]

\* ------------------------------------------------------------ file names
\* the output name without the language code: every language, one file
SrtName_NoLanguage(lang_code) == << InputStem, "_", "", InputSuffix >>

\* input_path.with_name(f"{stem}_{lang_code}{suffix}")
SrtName(lang_code) == << InputStem, "_", lang_code, InputSuffix >>

\* input_path.with_suffix('.docx')
InputName == << InputStem, InputSuffix >>

\* the file a cue list is written to before it is read back
RoundTripName == << InputStem, "_", "out", InputSuffix >>

DocxName == << InputStem, ".docx" >>

\* ================================================================= state
VARIABLES
    entry,             \* "main": a run of main(); "lib": direct library calls
    pc,                \* where the main thread (or the library caller) is
    input_exists,      \* input_path.exists()
    source,            \* the cue blocks of the input file
    output_languages,  \* args.output_languages, in request order
    ai_polish,         \* args.ai_polish
    openai_loaded,     \* ai_polisher: the openai client was created at import
    original_subs,     \* the parsed Cue Sequence
    translations,      \* dict lang_code -> Translation Buffer
    futures,           \* one record per submitted process_language task
    yielded,           \* futures as_completed has handed to the main thread
    srt_i,             \* items of translations the SRT loop has gone through
    files,             \* the artifacts on disk: name -> content
    error,             \* the exception that ended the run, or NoException
    polish_failed,     \* indices whose polish backend call raised
    backend_calls,     \* per task, the cue indices handed to translator.translate
    reparsed,          \* what parse_srt gives for the file write_srt wrote
    proc,              \* the generator subprocess of the GUI: none, running, exited, killed
    stdout_buffer,     \* lines the subprocess has printed and not flushed
    pipe,              \* lines in the stdout pipe the worker has not read
    worker,            \* where GeneratorWorker.run is
    _kill,             \* GeneratorWorker._kill
    completed_steps,   \* the local completed_steps of GeneratorWorker.run
    reported,          \* the finished_ok or finished_err signal emitted
    selected_file,     \* MainWindow.selected_file, "" when no file is selected
    output_list,       \* the texts of the items of MainWindow.output_list
    btn_generate,      \* btn_generate.isEnabled()
    btn_cancel,        \* btn_cancel.isEnabled()
    state_button,      \* the state last given to state_button.set_state
    _worker,           \* MainWindow._worker: "None" or "worker"
    orphans,           \* running workers MainWindow._worker no longer refers to
    runs,              \* workers started so far
    signals,           \* signals emitted by workers, queued for the GUI thread
    gestures,          \* what the user did to the inputs of the window so far
    dialogs            \* the message boxes open over the window, the last on top

vars == << entry, pc, input_exists, source, output_languages, ai_polish,
           openai_loaded, original_subs, translations, futures, yielded,
           srt_i, files, error, polish_failed, backend_calls, reparsed, proc,
           stdout_buffer, pipe, worker, _kill, completed_steps, reported,
           selected_file, output_list, btn_generate, btn_cancel, state_button,
           _worker, orphans, runs, signals,
           gestures,
           dialogs >>

NoFiles == << >>

LanguageLists == SeqsUpTo(Langs, MaxLangs) \ {<< >>}

\* a run of main(): argv parsed (nargs='+' wants one language at least),
\* the translator modules imported, nothing read yet
InitMain ==
    /\ entry = "main"
    /\ pc = "Idle"
    /\ input_exists \in BOOLEAN
    /\ source \in SourceFiles
    /\ output_languages \in LanguageLists
    /\ ai_polish \in BOOLEAN
    /\ openai_loaded \in BOOLEAN
    /\ original_subs = << >>
    /\ translations = EmptyDict
    /\ futures = << >>
    /\ yielded = {}
    /\ srt_i = 0
    /\ files = NoFiles
    /\ error = NoException
    /\ polish_failed = {}
    /\ backend_calls = << >>
    /\ reparsed = << >>
    /\ proc = "none"
    /\ stdout_buffer = << >>
    /\ pipe = << >>
    /\ worker = "none"
    /\ _kill = FALSE
    /\ completed_steps = 0
    /\ reported = ""
    /\ selected_file = ""
    /\ output_list = << >>
    /\ btn_generate = FALSE
    /\ btn_cancel = FALSE
    /\ state_button = "idle"
    /\ _worker = "None"
    /\ orphans = 0
    /\ runs = 0
    /\ signals = << >>
    /\ gestures = 0
    /\ dialogs = << >>

\* a caller about to hand a cue list to translate_lines or polish_texts (for
\* the first language of output_languages), then to write_docx
InitLib ==
    /\ entry = "lib"
    /\ pc = "lib_input"
    /\ input_exists = TRUE
    /\ source = << >>
    /\ output_languages \in LanguageLists
    /\ ai_polish = FALSE
    /\ openai_loaded \in BOOLEAN
    /\ original_subs \in SeqsUpTo(LibCues, MaxCues)
    /\ translations = EmptyDict
    /\ futures = << >>
    /\ yielded = {}
    /\ srt_i = 0
    /\ files = NoFiles
    /\ error = NoException
    /\ polish_failed = {}
    /\ backend_calls = << >>
    /\ reparsed = << >>
    /\ proc = "none"
    /\ stdout_buffer = << >>
    /\ pipe = << >>
    /\ worker = "none"
    /\ _kill = FALSE
    /\ completed_steps = 0
    /\ reported = ""
    /\ selected_file = ""
    /\ output_list = << >>
    /\ btn_generate = FALSE
    /\ btn_cancel = FALSE
    /\ state_button = "idle"
    /\ _worker = "None"
    /\ orphans = 0
    /\ runs = 0
    /\ signals = << >>
    /\ gestures = 0
    /\ dialogs = << >>

\* a caller about to parse an input file, write the cues with write_srt and
\* parse what was written
InitRoundTrip ==
    /\ entry = "roundtrip"
    /\ pc = "rt_input"
    /\ input_exists = TRUE
    /\ source = << >>
    /\ output_languages \in {<< l >> : l \in {"fr"}}
    /\ ai_polish = FALSE
    /\ openai_loaded = FALSE
    /\ original_subs = << >>
    /\ translations = EmptyDict
    /\ futures = << >>
    /\ yielded = {}
    /\ srt_i = 0
    /\ \E content \in RoundTripFiles : files = (InputName :> content)
    /\ error = NoException
    /\ polish_failed = {}
    /\ backend_calls = << >>
    /\ reparsed = << >>
    /\ proc = "none"
    /\ stdout_buffer = << >>
    /\ pipe = << >>
    /\ worker = "none"
    /\ _kill = FALSE
    /\ completed_steps = 0
    /\ reported = ""
    /\ selected_file = ""
    /\ output_list = << >>
    /\ btn_generate = FALSE
    /\ btn_cancel = FALSE
    /\ state_button = "idle"
    /\ _worker = "None"
    /\ orphans = 0
    /\ runs = 0
    /\ signals = << >>
    /\ gestures = 0
    /\ dialogs = << >>

\* the language codes of the combo boxes of the window
LANGUAGES == Langs \cup {InputLanguage}

\* the languages the user picks for the list of destinations
GuiLangs == {"fr"}

\* the input file picked in the file dialog of the window
GuiSourceFiles == { << SourceBlocks[2] >> }

\* MainWindow.__init__: no file selected, the list empty, both buttons
\* disabled, no worker; the command line GeneratorWorker.run builds has no
\* --ai_polish
InitGui ==
    /\ entry = "gui"
    /\ pc = "Idle"
    /\ input_exists = TRUE
    /\ source \in GuiSourceFiles
    /\ output_languages = << >>
    /\ ai_polish = FALSE
    /\ openai_loaded = FALSE
    /\ original_subs = << >>
    /\ translations = EmptyDict
    /\ futures = << >>
    /\ yielded = {}
    /\ srt_i = 0
    /\ files = NoFiles
    /\ error = NoException
    /\ polish_failed = {}
    /\ backend_calls = << >>
    /\ reparsed = << >>
    /\ proc = "none"
    /\ stdout_buffer = << >>
    /\ pipe = << >>
    /\ worker = "none"
    /\ _kill = FALSE
    /\ completed_steps = 0
    /\ reported = ""
    /\ selected_file = ""
    /\ output_list = << >>
    /\ btn_generate = FALSE
    /\ btn_cancel = FALSE
    /\ state_button = "idle"
    /\ _worker = "None"
    /\ orphans = 0
    /\ runs = 0
    /\ signals = << >>
    /\ gestures = 0
    /\ dialogs = << >>

\* the program started from the command line or called as a library
Init == InitMain \/ InitLib \/ InitRoundTrip

\* a path as the text str(path) gives
RECURSIVE PathText(_)
PathText(name) ==
    IF name = << >> THEN "" ELSE Head(name) \o PathText(Tail(name))

\* the lines main() prints: "Generated SRT: <file>" and "DOCX generated:
\* <file>" name a file, no other line does
LogLine == [kind |-> "log", file |-> ""]

FileLine(kind, name) == [kind |-> kind, file |-> PathText(name)]

\* main() is running: started from the command line, or as the subprocess
\* of the GUI worker
Started == entry = "main" \/ (entry = "gui" /\ proc = "running")

\* print(line): when main() runs under the GUI its stdout is the pipe of
\* Popen and the lines go to the buffer of sys.stdout first
Stdout(lines) ==
    stdout_buffer' = IF entry = "gui" THEN stdout_buffer \o lines
                     ELSE stdout_buffer

\* the exception caught and logged, the stage going on
Raise_Continue(e) == pc' = pc /\ error' = e

\* raise: the exception leaves main() and the process ends
Raise(e) == pc' = "Errored" /\ error' = e

\* the pre-flight check left out
CheckInput_NoCheck ==
    /\ entry = "main" /\ pc = "Idle"
    /\ pc' = "Parsing"
    /\ UNCHANGED << entry, input_exists, source, output_languages, ai_polish,
                    openai_loaded, original_subs, translations, futures,
                    yielded, srt_i, files, error, polish_failed,
                    backend_calls, reparsed, proc, stdout_buffer, pipe,
                    worker, _kill, completed_steps, reported, selected_file,
                    output_list, btn_generate, btn_cancel, state_button,
                    _worker, orphans, runs, signals, gestures, dialogs >>

\* ------------------------------------------------------------- main()
\* lines 28-30: the pre-flight check of the input path
CheckInput ==
    /\ Started /\ pc = "Idle"
    /\ IF input_exists
       THEN pc' = "Parsing" /\ error' = error
       ELSE Raise([type |-> "FileNotFoundError", langs |-> {}])
    /\ UNCHANGED << entry, input_exists, source, output_languages, ai_polish,
                    openai_loaded, original_subs, translations, futures,
                    yielded, srt_i, files, polish_failed, backend_calls,
                    reparsed, proc, stdout_buffer, pipe, worker, _kill,
                    completed_steps, reported, selected_file, output_list,
                    btn_generate, btn_cancel, state_button, _worker,
                    orphans, runs, signals, gestures, dialogs >>

\* lines 32-33
Parse ==
    /\ pc = "Parsing"
    /\ original_subs' = parse_srt(source)
    /\ translations' = EmptyDict
    /\ pc' = "Parsed"
    /\ UNCHANGED << entry, input_exists, source, output_languages, ai_polish,
                    openai_loaded, futures, yielded, srt_i, files, error,
                    polish_failed, backend_calls, reparsed, proc,
                    stdout_buffer, pipe, worker, _kill, completed_steps,
                    reported, selected_file, output_list, btn_generate,
                    btn_cancel, state_button, _worker, orphans, runs,
                    signals, gestures, dialogs >>

\* lines 37-41: one future per requested language, each with a worker thread
\* of its own (max_workers = len(args.output_languages))
Submit ==
    /\ pc = "Parsed"
    /\ futures' = [k \in DOMAIN output_languages |->
                     [lang |-> output_languages[k], state |-> "running",
                      translated |-> << >>, exception |-> NoException]]
    /\ yielded' = {}
    /\ backend_calls' = [k \in DOMAIN output_languages |-> << >>]
    /\ Stdout(<< LogLine >>)
    /\ pc' = "Translating"
    /\ UNCHANGED << entry, input_exists, source, output_languages, ai_polish,
                    openai_loaded, original_subs, translations, srt_i, files,
                    error, polish_failed, reparsed, proc, pipe, worker,
                    _kill, completed_steps, reported, selected_file,
                    output_list, btn_generate, btn_cancel, state_button,
                    _worker, orphans, runs, signals, gestures, dialogs >>

\* the translated text written back into the shared source cue (s['text'] =
\* text) as well as appended
TranslateCue_InPlace(k) ==
    /\ pc \in {"Translating", "Unwinding"}
    /\ k \in DOMAIN futures
    /\ futures[k].state = "running"
    /\ Supported(futures[k].lang)
    /\ Len(futures[k].translated) < Len(original_subs)
    /\ LET i == Len(futures[k].translated) + 1
           done == TranslatedEntry(original_subs[i], InputLanguage,
                                   futures[k].lang)
       IN  /\ futures' = [futures EXCEPT ![k].translated = Append(@, done)]
           /\ original_subs' = [original_subs EXCEPT ![i].text = done.text]
           /\ backend_calls' = Called(backend_calls, k, i, original_subs[i])
    /\ UNCHANGED << entry, pc, input_exists, source, output_languages,
                    ai_polish, openai_loaded, translations, yielded, srt_i,
                    files, error, polish_failed, reparsed, proc,
                    stdout_buffer, pipe, worker, _kill, completed_steps,
                    reported, selected_file, output_list, btn_generate,
                    btn_cancel, state_button, _worker, orphans, runs,
                    signals, gestures, dialogs >>

\* translator_service.py lines 6-11 in the thread of future k: one cue; the
\* backend call, when one is made, returns or raises
TranslateCue(k) ==
    /\ pc \in {"Translating", "Unwinding"}
    /\ k \in DOMAIN futures
    /\ futures[k].state = "running"
    /\ Supported(futures[k].lang)
    /\ Len(futures[k].translated) < Len(original_subs)
    /\ LET i == Len(futures[k].translated) + 1
           s == original_subs[i]
           done == TranslatedEntry(s, InputLanguage, futures[k].lang)
       IN  /\ \/ futures' = [futures EXCEPT ![k].translated = Append(@, done)]
              \/ /\ CallsBackend(s)
                 /\ \E e \in BackendExceptions(futures[k].lang) :
                       futures' = [futures EXCEPT ![k].state = "raised",
                                                  ![k].exception = e]
           /\ backend_calls' = Called(backend_calls, k, i, s)
    /\ UNCHANGED << entry, pc, input_exists, source, output_languages,
                    ai_polish, openai_loaded, original_subs, translations,
                    yielded, srt_i, files, error, polish_failed, reparsed,
                    proc, stdout_buffer, pipe, worker, _kill,
                    completed_steps, reported, selected_file, output_list,
                    btn_generate, btn_cancel, state_button, _worker,
                    orphans, runs, signals, gestures, dialogs >>

\* translator_service.py line 5: GoogleTranslator(source, target) raises
\* for a target that is no language of the backend, before any cue; the
\* message of the exception quotes the target
TaskRejected(k) ==
    /\ pc \in {"Translating", "Unwinding"}
    /\ k \in DOMAIN futures
    /\ futures[k].state = "running"
    /\ ~Supported(futures[k].lang)
    /\ futures' = [futures EXCEPT
                     ![k].state = "raised",
                     ![k].exception = [type |-> "LanguageNotSupportedException",
                                       langs |-> {futures[k].lang}]]
    /\ UNCHANGED << entry, pc, input_exists, source, output_languages,
                    ai_polish, openai_loaded, original_subs, translations,
                    yielded, srt_i, files, error, polish_failed,
                    backend_calls, reparsed, proc, stdout_buffer, pipe,
                    worker, _kill, completed_steps, reported, selected_file,
                    output_list, btn_generate, btn_cancel, state_button,
                    _worker, orphans, runs, signals, gestures, dialogs >>

\* translator_service.py line 12 and process_language lines 15-16: the task
\* returns (output_language, translated_subs) and its future completes
TaskReturn(k) ==
    /\ pc \in {"Translating", "Unwinding"}
    /\ k \in DOMAIN futures
    /\ futures[k].state = "running"
    /\ Supported(futures[k].lang)
    /\ Len(futures[k].translated) = Len(original_subs)
    /\ futures' = [futures EXCEPT ![k].state = "returned"]
    /\ Stdout(<< LogLine >>)
    /\ UNCHANGED << entry, pc, input_exists, source, output_languages,
                    ai_polish, openai_loaded, original_subs, translations,
                    yielded, srt_i, files, error, polish_failed,
                    backend_calls, reparsed, proc, pipe,
                    worker, _kill, completed_steps, reported, selected_file,
                    output_list, btn_generate, btn_cancel, state_button,
                    _worker, orphans, runs, signals, gestures, dialogs >>

Completed(k) == futures[k].state \in {"returned", "raised"}

AllTasksCompleted == \A k \in DOMAIN futures : Completed(k)

\* f.exception() ignored: the result of a failed task taken as it is
ResultRaises_Swallowed(k) == FALSE

\* f.result() re-raises the exception of a task that raised
ResultRaises(k) == futures[k].state = "raised"

\* the result keyed by the position in completion order, not by its language
TaskResult_ByCompletion(k) ==
    [key |-> output_languages[Cardinality(yielded) + 1],
     value |-> futures[k].translated]

\* f.result(): what process_language returned
TaskResult(k) == [key |-> futures[k].lang, value |-> futures[k].translated]

\* lines 42-44: as_completed hands over a completed future; its result is
\* stored under its language code, or its exception leaves the loop
Collect(k) ==
    /\ pc = "Translating"
    /\ k \in DOMAIN futures \ yielded
    /\ Completed(k)
    /\ yielded' = yielded \cup {k}
    /\ IF ResultRaises(k)
       THEN /\ pc' = "Unwinding"
            /\ error' = futures[k].exception
            /\ translations' = translations
       ELSE /\ translations' = DictSet(translations, TaskResult(k).key,
                                       TaskResult(k).value)
            /\ UNCHANGED << pc, error >>
    /\ UNCHANGED << entry, input_exists, source, output_languages, ai_polish,
                    openai_loaded, original_subs, futures, srt_i, files,
                    polish_failed, backend_calls, reparsed, proc,
                    stdout_buffer, pipe, worker, _kill, completed_steps,
                    reported, selected_file, output_list, btn_generate,
                    btn_cancel, state_button, _worker, orphans, runs,
                    signals, gestures, dialogs >>

\* the loop over as_completed left after the first future
AllCollected_AfterFirst == yielded # {}

\* as_completed is exhausted: every future has been handed over
AllCollected == yielded = DOMAIN futures

\* line 45: the loop ends and the with block is left normally
EndTranslating ==
    /\ pc = "Translating"
    /\ AllCollected
    /\ Stdout(<< LogLine >>)
    /\ pc' = "Collected"
    /\ UNCHANGED << entry, input_exists, source, output_languages, ai_polish,
                    openai_loaded, original_subs, translations, futures,
                    yielded, srt_i, files, error, polish_failed,
                    backend_calls, reparsed, proc, pipe,
                    worker, _kill, completed_steps, reported, selected_file,
                    output_list, btn_generate, btn_cancel, state_button,
                    _worker, orphans, runs, signals, gestures, dialogs >>

\* the with block left by an exception: executor.shutdown(wait=True) joins
\* every worker thread, then the exception leaves main()
Unwind ==
    /\ pc = "Unwinding"
    /\ AllTasksCompleted
    /\ pc' = "Errored"
    /\ UNCHANGED << entry, input_exists, source, output_languages, ai_polish,
                    openai_loaded, original_subs, translations, futures,
                    yielded, srt_i, files, error, polish_failed,
                    backend_calls, reparsed, proc, stdout_buffer, pipe,
                    worker, _kill, completed_steps, reported, selected_file,
                    output_list, btn_generate, btn_cancel, state_button,
                    _worker, orphans, runs, signals, gestures, dialogs >>

\* the names bound in the namespace of language_package_generator.py: its
\* imports (lines 2-9) and its two functions
GeneratorGlobals ==
    { "argparse", "concurrent", "Path", "parse_srt", "translate_lines",
      "write_srt", "write_docx", "polish_texts", "process_language", "main" }

\* lines 50-52: every buffer replaced by polish_texts of it, keys in place;
\* failing[i]: the cues of item i whose backend call raises
PolishAll(trans, failing) ==
    [i \in DOMAIN trans |->
        [key |-> trans[i].key,
         value |-> polish_texts(trans[i].value, trans[i].key, failing[i])]]

\* the SRT loop skipped
AfterPolish_SkipSrt(trans) == "WritingDocument"

\* where main() goes once the polishing stage is over
AfterPolish(trans) == IF Len(trans) = 0 THEN "WritingDocument" ELSE "WritingSrt"

\* lines 48-56: `args.ai_polish and OpenAI is not None` looks the name
\* OpenAI up only when the flag is set; the main thread is alone here, so the
\* loop over the languages is one step
PolishStage ==
    /\ pc = "Collected"
    /\ IF ~ai_polish
       THEN /\ pc' = AfterPolish(translations)
            /\ Stdout(<< LogLine >>)
            /\ UNCHANGED << translations, error >>
       ELSE IF "OpenAI" \notin GeneratorGlobals
       THEN /\ Raise([type |-> "NameError", langs |-> {}])
            /\ UNCHANGED << translations, stdout_buffer >>
       ELSE IF ~openai_loaded
       THEN /\ pc' = AfterPolish(translations)
            /\ Stdout(<< LogLine >>)
            /\ UNCHANGED << translations, error >>
       ELSE /\ \E failing \in [DOMAIN translations ->
                                 SUBSET (DOMAIN original_subs)] :
                 translations' = PolishAll(translations, failing)
            /\ pc' = AfterPolish(translations)
            /\ Stdout(<< LogLine >>
                        \o [i \in DOMAIN translations |-> LogLine]
                        \o << LogLine >>)
            /\ UNCHANGED error
    /\ UNCHANGED << entry, input_exists, source, output_languages, ai_polish,
                    openai_loaded, original_subs, futures, yielded, srt_i,
                    files, polish_failed, backend_calls, reparsed, proc,
                    pipe, worker, _kill, completed_steps, reported,
                    selected_file, output_list, btn_generate, btn_cancel,
                    state_button, _worker, orphans, runs, signals, gestures,
                    dialogs >>

\* the file system after `name` was created or overwritten with `content`
Written(fs, name, content) ==
    [n \in (DOMAIN fs) \cup {name} |-> IF n = name THEN content ELSE fs[n]]

\* lines 59-62: one iteration of the loop over translations.items(); open()
\* or a write can fail, and the OSError leaves main()
WriteSrt ==
    /\ pc = "WritingSrt"
    /\ srt_i < Len(translations)
    /\ LET item == translations[srt_i + 1]
       IN  \/ /\ files' = Written(files, SrtName(item.key), write_srt(item.value))
              /\ srt_i' = srt_i + 1
              /\ pc' = IF srt_i + 1 = Len(translations)
                       THEN "WritingDocument" ELSE "WritingSrt"
              /\ Stdout(<< FileLine("srt", SrtName(item.key)) >>)
              /\ UNCHANGED error
           \/ /\ Raise([type |-> "OSError", langs |-> {}])
              /\ UNCHANGED << files, srt_i, stdout_buffer >>
    /\ UNCHANGED << entry, input_exists, source, output_languages, ai_polish,
                    openai_loaded, original_subs, translations, futures,
                    yielded, polish_failed, backend_calls, reparsed, proc,
                    pipe, worker, _kill, completed_steps,
                    reported, selected_file, output_list, btn_generate,
                    btn_cancel, state_button, _worker, orphans, runs,
                    signals, gestures, dialogs >>

\* lines 65-73: the combined document
WriteDocx ==
    /\ pc = "WritingDocument"
    /\ \/ /\ ~DocxRaises(original_subs, translations, output_languages)
          /\ files' = Written(files, DocxName,
                              write_docx(original_subs, translations,
                                         output_languages, InputLanguage))
          /\ pc' = "Done"
          /\ Stdout(<< FileLine("docx", DocxName) >>)
          /\ UNCHANGED error
       \/ /\ Raise([type |-> IF DocxRaises(original_subs, translations,
                                           output_languages)
                             THEN "IndexError" ELSE "OSError",
                    langs |-> {}])
          /\ UNCHANGED << files, stdout_buffer >>
    /\ UNCHANGED << entry, input_exists, source, output_languages, ai_polish,
                    openai_loaded, original_subs, translations, futures,
                    yielded, srt_i, polish_failed, backend_calls, reparsed,
                    proc, pipe, worker, _kill,
                    completed_steps, reported, selected_file, output_list,
                    btn_generate, btn_cancel, state_button, _worker,
                    orphans, runs, signals, gestures, dialogs >>

\* ------------------------------------------------- direct library calls
\* translate_lines(subs, src, lang) called on a cue list: it returns the
\* buffer, or the first backend call that fails raises out of it
LibTranslate ==
    /\ entry = "lib" /\ pc = "lib_input"
    /\ LET lang == output_languages[1]
       IN  \/ /\ translations' =
                    DictSet(translations, lang,
                            translate_lines(original_subs, InputLanguage, lang))
              /\ backend_calls' = << CallsUpTo(original_subs, Len(original_subs)) >>
              /\ pc' = "lib_translated"
              /\ UNCHANGED error
           \/ /\ \E i \in DOMAIN original_subs :
                    /\ CallsBackend(original_subs[i])
                    /\ backend_calls' = << CallsUpTo(original_subs, i) >>
              /\ \E e \in BackendExceptions(lang) : Raise(e)
              /\ UNCHANGED translations
    /\ UNCHANGED << entry, input_exists, source, output_languages, ai_polish,
                    openai_loaded, original_subs, futures, yielded, srt_i,
                    files, polish_failed, reparsed, proc, stdout_buffer,
                    pipe, worker, _kill, completed_steps, reported,
                    selected_file, output_list, btn_generate, btn_cancel,
                    state_button, _worker, orphans, runs, signals, gestures,
                    dialogs >>

\* polish_texts(buffer, lang) called on the given cue list or on the buffer
\* translate_lines returned; without a client every backend call raises
\* (and is caught, ai_polisher.py lines 41-43)
LibPolish ==
    /\ entry = "lib" /\ pc \in {"lib_input", "lib_translated"}
    /\ LET lang == output_languages[1]
           buffer == IF pc = "lib_input" THEN original_subs
                     ELSE DictGet(translations, lang)
       IN  \E failing \in SUBSET (DOMAIN buffer) :
              /\ openai_loaded \/ failing = DOMAIN buffer
              /\ translations' =
                    DictSet(translations, lang, polish_texts(buffer, lang, failing))
              /\ polish_failed' = {i \in failing : CallsPolishBackend(buffer[i].text)}
    /\ pc' = "lib_polished"
    /\ UNCHANGED << entry, input_exists, source, output_languages, ai_polish,
                    openai_loaded, original_subs, futures, yielded, srt_i,
                    files, error, backend_calls, reparsed, proc,
                    stdout_buffer, pipe, worker, _kill, completed_steps,
                    reported, selected_file, output_list, btn_generate,
                    btn_cancel, state_button, _worker, orphans, runs,
                    signals, gestures, dialogs >>

\* parse_srt(input_path): the matches of the pattern in the content read,
\* then a cue for each
RtParse ==
    /\ entry = "roundtrip" /\ pc = "rt_input"
    /\ source' = srt_findall(files[InputName])
    /\ original_subs' = parse_srt(source')
    /\ pc' = "rt_parsed"
    /\ UNCHANGED << entry, input_exists, output_languages, ai_polish,
                    openai_loaded, translations, futures, yielded, srt_i,
                    files, error, polish_failed, backend_calls, reparsed,
                    proc, stdout_buffer, pipe, worker, _kill,
                    completed_steps, reported, selected_file, output_list,
                    btn_generate, btn_cancel, state_button, _worker,
                    orphans, runs, signals, gestures, dialogs >>

\* write_srt(subtitles, output_path)
RtWrite ==
    /\ entry = "roundtrip" /\ pc = "rt_parsed"
    /\ files' = Written(files, RoundTripName, write_srt(original_subs))
    /\ pc' = "rt_written"
    /\ UNCHANGED << entry, input_exists, source, output_languages, ai_polish,
                    openai_loaded, original_subs, translations, futures,
                    yielded, srt_i, error, polish_failed, backend_calls,
                    reparsed, proc, stdout_buffer, pipe, worker, _kill,
                    completed_steps, reported, selected_file, output_list,
                    btn_generate, btn_cancel, state_button, _worker,
                    orphans, runs, signals, gestures, dialogs >>

\* parse_srt(output_path)
RtReparse ==
    /\ entry = "roundtrip" /\ pc = "rt_written"
    /\ reparsed' = parse_srt(srt_findall(files[RoundTripName]))
    /\ pc' = "rt_reparsed"
    /\ UNCHANGED << entry, input_exists, source, output_languages, ai_polish,
                    openai_loaded, original_subs, translations, futures,
                    yielded, srt_i, files, error, polish_failed,
                    backend_calls, proc, stdout_buffer, pipe, worker, _kill,
                    completed_steps, reported, selected_file, output_list,
                    btn_generate, btn_cancel, state_button, _worker,
                    orphans, runs, signals, gestures, dialogs >>

\* write_docx(cues, translations, output_languages, 'en', path) called on
\* the cue list with the buffers made so far: the dict has a buffer for the
\* first language at most
LibWriteDocx ==
    /\ entry = "lib"
    /\ pc \in {"lib_input", "lib_translated", "lib_polished"}
    /\ \/ /\ ~DocxRaises(original_subs, translations, output_languages)
          /\ files' = Written(files, DocxName,
                              write_docx(original_subs, translations,
                                         output_languages, InputLanguage))
          /\ pc' = "lib_docx"
          /\ UNCHANGED error
       \/ /\ Raise([type |-> IF DocxRaises(original_subs, translations,
                                           output_languages)
                             THEN "IndexError" ELSE "OSError",
                    langs |-> {}])
          /\ UNCHANGED files
    /\ UNCHANGED << entry, input_exists, source, output_languages, ai_polish,
                    openai_loaded, original_subs, translations, futures,
                    yielded, srt_i, polish_failed, backend_calls, reparsed,
                    proc, stdout_buffer, pipe, worker, _kill, completed_steps,
                    reported, selected_file, output_list, btn_generate,
                    btn_cancel, state_button, _worker, orphans, runs,
                    signals, gestures, dialogs >>

\* ------------------------------------------------------------ ui_main.py
\* what the interpreter writes to stderr (the same pipe, unbuffered) when
\* an exception leaves main(): the header, the frames, the exception
Traceback == << LogLine, LogLine, LogLine >>

\* a signal of a worker on its way to its slot in the GUI thread: log(line),
\* progress(percent, message), finished_ok() or finished_err(message)
Signal(name, line, percent) ==
    [name |-> name, kind |-> line.kind, file |-> line.file,
     percent |-> percent]

\* lines 92-93 and 108-119: the percent of the progress signal for a line,
\* completed_steps being counted up first for a line that names a file
TotalSteps == Len(output_languages) + 1

Percent(line) ==
    IF line.kind = "srt"
    THEN (900 * (completed_steps + 1)) \div (10 * TotalSteps)
    ELSE IF line.kind = "docx" THEN 100
    ELSE (600 * completed_steps) \div (10 * TotalSteps)

\* proc.returncode
ReturnCode ==
    IF proc = "killed" THEN 0 - 9 ELSE IF pc = "Done" THEN 0 ELSE 1

\* QThread.isRunning() of the worker MainWindow._worker refers to
IsRunning == worker \in {"reading", "waiting"}

\* _update_ui_state, lines 357-367, for the selected file and the list the
\* handler leaves
Ready(file, list) == file # "" /\ Len(list) > 0

UpdateUiState(file, list) ==
    /\ btn_generate' = Ready(file, list)
    /\ state_button' = IF Ready(file, list) THEN "ready" ELSE "idle"

\* on_browse, lines 327-332, when the dialog returns a path
OnBrowse ==
    /\ entry = "gui"
    /\ dialogs = << >>
    /\ gestures < MaxGestures
    /\ gestures' = gestures + 1
    /\ selected_file' = PathText(InputName)
    /\ UpdateUiState(selected_file', output_list)
    /\ UNCHANGED << entry, pc, input_exists, source, output_languages,
                    ai_polish, openai_loaded, original_subs, translations,
                    futures, yielded, srt_i, files, error, polish_failed,
                    backend_calls, reparsed, proc, stdout_buffer, pipe,
                    worker, _kill, completed_steps, reported, output_list,
                    btn_cancel, _worker, orphans, runs, signals, dialogs >>

\* on_clear_all, lines 334-340
OnClearAll ==
    /\ entry = "gui"
    /\ dialogs = << >>
    /\ gestures < MaxGestures
    /\ gestures' = gestures + 1
    /\ selected_file' = ""
    /\ output_list' = << >>
    /\ btn_generate' = FALSE
    /\ state_button' = "idle"
    /\ UNCHANGED << entry, pc, input_exists, source, output_languages,
                    ai_polish, openai_loaded, original_subs, translations,
                    futures, yielded, srt_i, files, error, polish_failed,
                    backend_calls, reparsed, proc, stdout_buffer, pipe,
                    worker, _kill, completed_steps, reported, btn_cancel,
                    _worker, orphans, runs, signals, dialogs >>

\* on_add_language, lines 342-348, for the language chosen in the combo box
OnAddLanguage(lang) ==
    /\ entry = "gui"
    /\ dialogs = << >>
    /\ gestures < MaxGestures
    /\ gestures' = gestures + 1
    /\ output_list' = IF \E i \in DOMAIN output_list : output_list[i] = lang
                      THEN output_list ELSE Append(output_list, lang)
    /\ UpdateUiState(selected_file, output_list')
    /\ UNCHANGED << entry, pc, input_exists, source, output_languages,
                    ai_polish, openai_loaded, original_subs, translations,
                    futures, yielded, srt_i, files, error, polish_failed,
                    backend_calls, reparsed, proc, stdout_buffer, pipe,
                    worker, _kill, completed_steps, reported, selected_file,
                    btn_cancel, _worker, orphans, runs, signals, dialogs >>

\* _on_list_context, lines 350-355: the item under the pointer is taken out
\* of the list (i = 0: there is none)
OnListContext(i) ==
    /\ entry = "gui"
    /\ dialogs = << >>
    /\ gestures < MaxGestures
    /\ gestures' = gestures + 1
    /\ i \in {0} \cup DOMAIN output_list
    /\ output_list' = [j \in 1..(Len(output_list) - (IF i = 0 THEN 0 ELSE 1))
                         |-> IF i = 0 \/ j < i THEN output_list[j]
                             ELSE output_list[j + 1]]
    /\ UpdateUiState(selected_file, output_list')
    /\ UNCHANGED << entry, pc, input_exists, source, output_languages,
                    ai_polish, openai_loaded, original_subs, translations,
                    futures, yielded, srt_i, files, error, polish_failed,
                    backend_calls, reparsed, proc, stdout_buffer, pipe,
                    worker, _kill, completed_steps, reported, selected_file,
                    btn_cancel, _worker, orphans, runs, signals, dialogs >>

\* MainWindow.on_generate, lines 372-397, and the start of
\* GeneratorWorker.run, lines 66-96: a new worker takes the place of
\* MainWindow._worker and its subprocess is created with the items of the
\* list as --output_languages, or Popen raises.  A worker still running is
\* left without a reference: from then on it is only counted.
OnGenerate ==
    /\ entry = "gui"
    /\ dialogs = << >>
    /\ btn_generate
    /\ runs < MaxRuns
    /\ runs' = runs + 1
    /\ btn_generate' = FALSE
    /\ btn_cancel' = TRUE
    /\ state_button' = "running"
    /\ _worker' = "worker"
    /\ orphans' = IF IsRunning THEN orphans + 1 ELSE orphans
    /\ _kill' = FALSE
    /\ completed_steps' = 0
    /\ output_languages' = output_list
    /\ pc' = "Idle"
    /\ original_subs' = << >>
    /\ translations' = EmptyDict
    /\ futures' = << >>
    /\ yielded' = {}
    /\ srt_i' = 0
    /\ error' = NoException
    /\ backend_calls' = << >>
    /\ stdout_buffer' = << >>
    /\ pipe' = << >>
    /\ \/ /\ worker' = "reading"
          /\ proc' = "running"
          /\ UNCHANGED << reported, signals >>
       \/ /\ worker' = "ended"
          /\ proc' = "none"
          /\ reported' = "Failed to start process"
          /\ signals' = Append(signals, Signal("finished_err", LogLine, 0))
    /\ UNCHANGED << entry, input_exists, source, ai_polish, openai_loaded,
                    files, polish_failed, reparsed, selected_file,
                    output_list, gestures, dialogs >>

\* the buffer of sys.stdout of the subprocess written to the pipe before the
\* process ends: it is full, or the interpreter runs unbuffered
ProcFlush ==
    /\ entry = "gui" /\ proc = "running"
    /\ pc \notin {"Done", "Errored"}
    /\ stdout_buffer # << >>
    /\ pipe' = pipe \o stdout_buffer
    /\ stdout_buffer' = << >>
    /\ UNCHANGED << entry, pc, input_exists, source, output_languages,
                    ai_polish, openai_loaded, original_subs, translations,
                    futures, yielded, srt_i, files, error, polish_failed,
                    backend_calls, reparsed, proc, worker, _kill,
                    completed_steps, reported, selected_file, output_list,
                    btn_generate, btn_cancel, state_button, _worker,
                    orphans, runs, signals, gestures, dialogs >>

\* the subprocess ends: main() returned or an exception left it; the
\* traceback goes to the pipe, then the interpreter flushes sys.stdout
ProcExit ==
    /\ entry = "gui" /\ proc = "running"
    /\ pc \in {"Done", "Errored"}
    /\ pipe' = pipe \o (IF pc = "Errored" THEN Traceback ELSE << >>)
                    \o stdout_buffer
    /\ stdout_buffer' = << >>
    /\ proc' = "exited"
    /\ UNCHANGED << entry, pc, input_exists, source, output_languages,
                    ai_polish, openai_loaded, original_subs, translations,
                    futures, yielded, srt_i, files, error, polish_failed,
                    backend_calls, reparsed, worker, _kill, completed_steps,
                    reported, selected_file, output_list, btn_generate,
                    btn_cancel, state_button, _worker, orphans, runs,
                    signals, gestures, dialogs >>

\* GeneratorWorker.run, lines 98-119: one iteration of the loop over
\* proc.stdout; _kill is looked at only here, when a line has arrived.
\* proc.kill() ends a running subprocess where it is, with what it had not
\* flushed; otherwise the log and progress signals are emitted
WorkerReadLine ==
    /\ worker = "reading"
    /\ pipe # << >>
    /\ pipe' = Tail(pipe)
    /\ IF _kill
       THEN /\ worker' = "waiting"
            /\ IF proc = "running"
               THEN proc' = "killed" /\ pc' = "Killed"
                    /\ stdout_buffer' = << >>
               ELSE UNCHANGED << proc, pc, stdout_buffer >>
            /\ UNCHANGED << completed_steps, signals >>
       ELSE /\ completed_steps' =
                  IF Head(pipe).kind \in {"srt", "docx"}
                  THEN completed_steps + 1 ELSE completed_steps
            /\ signals' = signals \o
                  << Signal("log", Head(pipe), 0),
                     Signal("progress", Head(pipe), Percent(Head(pipe))) >>
            /\ UNCHANGED << worker, proc, pc, stdout_buffer >>
    /\ UNCHANGED << entry, input_exists, source, output_languages, ai_polish,
                    openai_loaded, original_subs, translations, futures,
                    yielded, srt_i, files, error, polish_failed,
                    backend_calls, reparsed, _kill, reported, selected_file,
                    output_list, btn_generate, btn_cancel, state_button,
                    _worker, orphans, runs, gestures, dialogs >>

\* line 98: the loop over proc.stdout ends at the end of the stream, when
\* the subprocess is gone and every line was read
WorkerEOF ==
    /\ worker = "reading"
    /\ pipe = << >>
    /\ proc \in {"exited", "killed"}
    /\ worker' = "waiting"
    /\ UNCHANGED << entry, pc, input_exists, source, output_languages,
                    ai_polish, openai_loaded, original_subs, translations,
                    futures, yielded, srt_i, files, error, polish_failed,
                    backend_calls, reparsed, proc, stdout_buffer, pipe, _kill,
                    completed_steps, reported, selected_file, output_list,
                    btn_generate, btn_cancel, state_button, _worker,
                    orphans, runs, signals, gestures, dialogs >>

\* lines 121-127: proc.wait() returns once the subprocess is gone, and one
\* of the finished signals is emitted
WorkerWait ==
    /\ worker = "waiting"
    /\ proc \in {"exited", "killed"}
    /\ reported' = IF ReturnCode = 0 /\ ~_kill THEN "finished_ok"
                   ELSE IF _kill THEN "Cancelled by user"
                   ELSE "Process ended with code"
    /\ signals' = Append(signals,
                         Signal(IF ReturnCode = 0 /\ ~_kill
                                THEN "finished_ok" ELSE "finished_err",
                                LogLine, 0))
    /\ worker' = "ended"
    /\ UNCHANGED << entry, pc, input_exists, source, output_languages,
                    ai_polish, openai_loaded, original_subs, translations,
                    futures, yielded, srt_i, files, error, polish_failed,
                    backend_calls, reparsed, proc, stdout_buffer, pipe, _kill,
                    completed_steps, selected_file, output_list, btn_generate,
                    btn_cancel, state_button, _worker, orphans, runs,
                    gestures, dialogs >>

\* MainWindow.on_cancel, lines 399-402, and GeneratorWorker.kill: when the
\* window has a running worker its flag is set and the Cancel button
\* disabled, nothing else
OnCancel ==
    /\ entry = "gui"
    /\ dialogs = << >>
    /\ btn_cancel
    /\ _worker = "worker" /\ IsRunning
    /\ _kill' = TRUE
    /\ btn_cancel' = FALSE
    /\ UNCHANGED << entry, pc, input_exists, source, output_languages,
                    ai_polish, openai_loaded, original_subs, translations,
                    futures, yielded, srt_i, files, error, polish_failed,
                    backend_calls, reparsed, proc, stdout_buffer, pipe,
                    worker, completed_steps, reported, selected_file,
                    output_list, btn_generate, state_button, _worker, orphans,
                    runs, signals, gestures, dialogs >>

\* a worker the window no longer refers to ends: its subprocess is gone and
\* it emits one of the finished signals
OrphanEnds ==
    /\ entry = "gui"
    /\ orphans > 0
    /\ orphans' = orphans - 1
    /\ \E name \in {"finished_ok", "finished_err"} :
          signals' = Append(signals, Signal(name, LogLine, 0))
    /\ UNCHANGED << entry, pc, input_exists, source, output_languages,
                    ai_polish, openai_loaded, original_subs, translations,
                    futures, yielded, srt_i, files, error, polish_failed,
                    backend_calls, reparsed, proc, stdout_buffer, pipe,
                    worker, _kill, completed_steps, reported, selected_file,
                    output_list, btn_generate, btn_cancel, state_button,
                    _worker, runs, gestures, dialogs >>

\* _on_worker_log, lines 420-434: the file a line names becomes an item of
\* the list
OnWorkerLog ==
    /\ signals # << >> /\ Head(signals).name = "log"
    /\ signals' = Tail(signals)
    /\ output_list' = IF Head(signals).kind \in {"srt", "docx"}
                      THEN Append(output_list, Head(signals).file)
                      ELSE output_list
    /\ UNCHANGED << entry, pc, input_exists, source, output_languages,
                    ai_polish, openai_loaded, original_subs, translations,
                    futures, yielded, srt_i, files, error, polish_failed,
                    backend_calls, reparsed, proc, stdout_buffer, pipe,
                    worker, _kill, completed_steps, reported, selected_file,
                    btn_generate, btn_cancel, state_button, _worker, orphans,
                    runs, gestures, dialogs >>

\* _on_worker_progress, lines 407-417
OnWorkerProgress ==
    /\ signals # << >> /\ Head(signals).name = "progress"
    /\ signals' = Tail(signals)
    /\ state_button' = IF Head(signals).percent >= 100 THEN "done"
                       ELSE IF Head(signals).percent >= 85 THEN "almost"
                       ELSE IF Head(signals).percent > 0 THEN "running"
                       ELSE state_button
    /\ UNCHANGED << entry, pc, input_exists, source, output_languages,
                    ai_polish, openai_loaded, original_subs, translations,
                    futures, yielded, srt_i, files, error, polish_failed,
                    backend_calls, reparsed, proc, stdout_buffer, pipe,
                    worker, _kill, completed_steps, reported, selected_file,
                    output_list, btn_generate, btn_cancel, _worker, orphans,
                    runs, gestures, dialogs >>

\* _on_worker_done, lines 437-443: the buttons, the state "done", and the
\* message box opens; the handler goes on when the user closes the box
OnWorkerDone ==
    /\ signals # << >> /\ Head(signals).name = "finished_ok"
    /\ signals' = Tail(signals)
    /\ btn_cancel' = FALSE
    /\ btn_generate' = TRUE
    /\ state_button' = "done"
    /\ dialogs' = Append(dialogs, "Completed")
    /\ UNCHANGED << entry, pc, input_exists, source, output_languages,
                    ai_polish, openai_loaded, original_subs, translations,
                    futures, yielded, srt_i, files, error, polish_failed,
                    backend_calls, reparsed, proc, stdout_buffer, pipe,
                    worker, _kill, completed_steps, reported, selected_file,
                    output_list, _worker, orphans, runs, gestures >>

\* _on_worker_done, lines 444-445, once the "Completed" box is closed:
\* _update_ui_state sets the state of the button again
CompletedClosed ==
    /\ dialogs # << >> /\ dialogs[Len(dialogs)] = "Completed"
    /\ dialogs' = SubSeq(dialogs, 1, Len(dialogs) - 1)
    /\ _worker' = "None"
    /\ UpdateUiState(selected_file, output_list)
    /\ UNCHANGED << entry, pc, input_exists, source, output_languages,
                    ai_polish, openai_loaded, original_subs, translations,
                    futures, yielded, srt_i, files, error, polish_failed,
                    backend_calls, reparsed, proc, stdout_buffer, pipe,
                    worker, _kill, completed_steps, reported, selected_file,
                    output_list, btn_cancel, orphans, runs, signals,
                    gestures >>

\* _on_worker_error, lines 447-452: the buttons, the reference to the
\* worker dropped, and the message box opens
OnWorkerError ==
    /\ signals # << >> /\ Head(signals).name = "finished_err"
    /\ signals' = Tail(signals)
    /\ btn_cancel' = FALSE
    /\ btn_generate' = TRUE
    /\ _worker' = "None"
    /\ dialogs' = Append(dialogs, "Generator Error")
    /\ UNCHANGED << entry, pc, input_exists, source, output_languages,
                    ai_polish, openai_loaded, original_subs, translations,
                    futures, yielded, srt_i, files, error, polish_failed,
                    backend_calls, reparsed, proc, stdout_buffer, pipe,
                    worker, _kill, completed_steps, reported, selected_file,
                    output_list, state_button, orphans, runs, gestures >>

\* _on_worker_error, lines 453-454, once the "Generator Error" box is closed
ErrorClosed ==
    /\ dialogs # << >> /\ dialogs[Len(dialogs)] = "Generator Error"
    /\ dialogs' = SubSeq(dialogs, 1, Len(dialogs) - 1)
    /\ UpdateUiState(selected_file, output_list)
    /\ UNCHANGED << entry, pc, input_exists, source, output_languages,
                    ai_polish, openai_loaded, original_subs, translations,
                    futures, yielded, srt_i, files, error, polish_failed,
                    backend_calls, reparsed, proc, stdout_buffer, pipe,
                    worker, _kill, completed_steps, reported, selected_file,
                    output_list, btn_cancel, _worker, orphans, runs, signals,
                    gestures >>

\* ------------------------------------------------------- specification
Next ==
    \/ CheckInput
    \/ Parse
    \/ Submit
    \/ \E k \in DOMAIN futures : TranslateCue(k)
    \/ \E k \in DOMAIN futures : TaskReturn(k)
    \/ \E k \in DOMAIN futures : Collect(k)
    \/ EndTranslating
    \/ Unwind
    \/ PolishStage
    \/ WriteSrt
    \/ WriteDocx
    \/ LibTranslate
    \/ LibPolish
    \/ LibWriteDocx
    \/ RtParse
    \/ RtWrite
    \/ RtReparse

Spec == Init /\ [][Next]_vars

\* the window: what the user does in it, its worker thread and the
\* subprocess running main(), the slots of the signals of the worker
NextGui ==
    \/ Next
    \/ \E k \in DOMAIN futures : TaskRejected(k)
    \/ OnGenerate
    \/ ProcFlush
    \/ ProcExit
    \/ WorkerReadLine
    \/ WorkerEOF
    \/ WorkerWait
    \/ OnCancel
    \/ OnBrowse
    \/ OnClearAll
    \/ \E lang \in GuiLangs : OnAddLanguage(lang)
    \/ \E i \in {0} \cup DOMAIN output_list : OnListContext(i)
    \/ OrphanEnds
    \/ OnWorkerLog
    \/ OnWorkerProgress
    \/ OnWorkerDone
    \/ CompletedClosed
    \/ OnWorkerError
    \/ ErrorClosed

\* the program started from the command line, called as a library, or
\* started from the window
SpecGui == (Init \/ InitGui) /\ [][NextGui]_vars

\* ================================================================ claims
\* the stages of main() that come after the with block of the executor
Downstream == {"Collected", "WritingSrt", "WritingDocument"}

\* every requested language has a task, and each has returned its whole buffer
EveryTaskReturned ==
    /\ DOMAIN futures = DOMAIN output_languages
    /\ \A k \in DOMAIN futures :
          /\ futures[k].state = "returned"
          /\ Len(futures[k].translated) = Len(original_subs)

\* the buffer a language gets when no backend call fails
Expected(lang) == translate_lines(original_subs, InputLanguage, lang)

\* number of cue blocks in a subtitle file content (its timestamp arrows)
CueCount(content) == Cardinality({j \in DOMAIN content : content[j] = " --> "})

\* the subtitle artifacts on disk
SrtFiles == {n \in DOMAIN files : n # DocxName}

\* the exception types of the translation backend
BackendTypes == {"RequestError", "ConnectionError"}

\* the futures whose task raised
Raised == {k \in DOMAIN futures : futures[k].state = "raised"}

\* C1: every step of the polishing stage, every write_srt call and every
\* write_docx call (and any change of the files on disk) is taken in a
\* state in which every dispatched translation task has returned its
\* complete buffer, whatever the order the tasks completed in.
C1_CollectedBarrier ==
    [][ (entry = "main" /\ (pc \in Downstream \/ files' # files))
            => EveryTaskReturned ]_vars

\* the SRT stage is under way (one artifact written) in a run whose second
\* requested language completed first
C1_Witness ==
    /\ entry = "main" /\ pc = "WritingSrt" /\ srt_i = 1
    /\ Len(output_languages) = 2
    /\ translations[1].key = output_languages[2]
    /\ output_languages[1] # output_languages[2]

\* C2: every buffer stored for a language, and every buffer a task has
\* returned, has the length of the source Cue Sequence and, index by index,
\* its start and end timestamps; after translate_lines and after
\* polish_texts.
Aligned(buffer) ==
    /\ Len(buffer) = Len(original_subs)
    /\ \A i \in DOMAIN buffer :
          /\ buffer[i].start = original_subs[i].start
          /\ buffer[i].end = original_subs[i].end

C2_Alignment ==
    /\ \A i \in DOMAIN translations : Aligned(translations[i].value)
    /\ \A k \in DOMAIN futures :
          futures[k].state = "returned" => Aligned(futures[k].translated)

\* polish_texts has run on the buffer translate_lines returned for a list
\* with a blank cue and a non-blank one
C2_Witness ==
    /\ entry = "lib" /\ pc = "lib_polished"
    /\ Len(translations) = 1
    /\ \E i, j \in DOMAIN original_subs :
          CallsBackend(original_subs[i]) /\ ~CallsBackend(original_subs[j])

\* C3: a run that reaches Done has written exactly one subtitle artifact
\* per requested language, named from the stem and the language code, and
\* each holds as many cues as the source Cue Sequence.
C3_OneSrtPerLanguage ==
    (entry = "main" /\ pc = "Done") =>
        /\ SrtFiles = {SrtName(l) : l \in Range(output_languages)}
        /\ Cardinality(SrtFiles) = Cardinality(Range(output_languages))
        /\ \A n \in SrtFiles : CueCount(files[n]) = Len(original_subs)

C3_Witness ==
    /\ entry = "main" /\ pc = "Done"
    /\ Cardinality(Range(output_languages)) = 2
    /\ Len(original_subs) >= 1

\* C4 (as claimed): a finished run with --ai_polish, a loaded polishing
\* client, every translation task returned and no write error has reached
\* Done with every buffer polished and every artifact written.
C4_PolishedThenDone ==
    (/\ entry = "main" /\ pc \in {"Done", "Errored"}
     /\ ai_polish /\ openai_loaded
     /\ EveryTaskReturned
     /\ error.type \notin {"OSError", "IndexError"})
    => /\ pc = "Done"
       /\ \A i \in DOMAIN translations :
             \E failing \in SUBSET (DOMAIN original_subs) :
                translations[i].value =
                    polish_texts(Expected(translations[i].key),
                                 translations[i].key, failing)
       /\ DOMAIN files = SrtFiles \cup {DocxName}

\* C5 (as claimed): a finished run with --ai_polish but no polishing client,
\* every translation task returned and no write error has reached Done and
\* written every artifact from the unpolished buffers.
C5_SkippedThenDone ==
    (/\ entry = "main" /\ pc \in {"Done", "Errored"}
     /\ ai_polish /\ ~openai_loaded
     /\ EveryTaskReturned
     /\ error.type \notin {"OSError", "IndexError"})
    => /\ pc = "Done"
       /\ \A l \in Range(output_languages) :
             /\ SrtName(l) \in DOMAIN files
             /\ files[SrtName(l)] = write_srt(Expected(l))
       /\ DocxName \in DOMAIN files

\* C6: once the translation task of a language has raised, no artifact is
\* ever on disk and the run never gets past the translation stage, also
\* when other tasks returned and were collected.
C6_FailureIsFatal ==
    (entry = "main" /\ Raised # {}) =>
        /\ files = NoFiles
        /\ pc \in {"Translating", "Unwinding", "Errored"}

\* the run has ended on the failure of one language after the buffer of
\* another language was collected
C6_Witness ==
    /\ entry = "main" /\ pc = "Errored"
    /\ Cardinality(Raised) = 1
    /\ Len(translations) = 1
    /\ \A k \in Raised : futures[k].lang # translations[1].key

\* C7 (as claimed): when exactly one task raised, the error that ended the
\* run names the language of that task.
C7_ErrorNamesLanguage ==
    (/\ entry = "main" /\ pc = "Errored"
     /\ error.type \in BackendTypes
     /\ Cardinality(Raised) = 1)
    => \A k \in Raised : futures[k].lang \in error.langs

\* C8: whatever order the tasks complete in, the collected mapping holds
\* for each requested language the buffer translate_lines gives for it (one
\* item per language), and a run that reaches Done leaves exactly the files
\* a sequential run in request order leaves.
RECURSIVE RequestOrderDict(_)
RequestOrderDict(k) ==
    IF k = 0 THEN EmptyDict
    ELSE DictSet(RequestOrderDict(k - 1), output_languages[k],
                 Expected(output_languages[k]))

ExpectedFiles ==
    [n \in {SrtName(l) : l \in Range(output_languages)} \cup {DocxName} |->
        IF n = DocxName
        THEN write_docx(original_subs, RequestOrderDict(Len(output_languages)),
                        output_languages, InputLanguage)
        ELSE write_srt(Expected(n[3]))]

C8_OrderIndependence ==
    /\ (entry = "main" /\ pc \in Downstream \cup {"Done"}) =>
          /\ Range(DictKeys(translations)) = Range(output_languages)
          /\ Len(translations) = Cardinality(Range(output_languages))
          /\ \A i \in DOMAIN translations :
                translations[i].value = Expected(translations[i].key)
    /\ (entry = "main" /\ pc = "Done") => files = ExpectedFiles

\* a run is Done whose second requested language completed first
C8_Witness ==
    /\ entry = "main" /\ pc = "Done"
    /\ Len(output_languages) = 2
    /\ translations[1].key = output_languages[2]
    /\ output_languages[1] # output_languages[2]
    /\ \E i \in DOMAIN original_subs : CallsBackend(original_subs[i])

\* C9: the combined document has one data row per source cue (one header
\* row before them) and every row has 2 + len(output_languages) cells, for
\* every source length, zero included, and with repeated languages.
C9_DocxShape ==
    (entry = "main" /\ DocxName \in DOMAIN files) =>
        /\ Len(files[DocxName]) = 1 + Len(original_subs)
        /\ \A r \in DOMAIN files[DocxName] :
              Len(files[DocxName][r]) = 2 + Len(output_languages)

C9_Witness ==
    /\ entry = "main" /\ DocxName \in DOMAIN files
    /\ Len(output_languages) >= 2
    /\ Len(original_subs) >= 1

\* C10: in row i of the combined document the first cell is the timestamp
\* of source cue i, cell k+1 is the text at index i of the buffer of the
\* k-th requested language (request order, not completion order), the last
\* cell is the text of source cue i; the header names the columns likewise.
C10_DocxColumns ==
    (entry = "main" /\ DocxName \in DOMAIN files) =>
        LET table == files[DocxName]
            n == Len(output_languages)
        IN  /\ table[1][1] = "Timestamp"
            /\ \A k \in 1..n : table[1][k + 1] = output_languages[k]
            /\ table[1][Len(table[1])] = Upper(InputLanguage)
            /\ \A i \in DOMAIN original_subs :
                  /\ table[i + 1][1] =
                        original_subs[i].start \o " --> " \o original_subs[i].end
                  /\ \A k \in 1..n :
                        table[i + 1][k + 1] = Expected(output_languages[k])[i].text
                  /\ table[i + 1][Len(table[i + 1])] = original_subs[i].text

\* the document is written in a run whose second requested language
\* completed first and whose source has a cue with text
C10_Witness ==
    /\ entry = "main" /\ DocxName \in DOMAIN files
    /\ Len(output_languages) = 2
    /\ output_languages[1] # output_languages[2]
    /\ DictKeys(translations) = << output_languages[2], output_languages[1] >>
    /\ \E i \in DOMAIN original_subs : CallsBackend(original_subs[i])

\* C11 (as claimed): no two dispatched translation tasks have the same
\* language code.
C11_NoDuplicateDispatch ==
    \A j, k \in DOMAIN futures :
        j # k => futures[j].lang # futures[k].lang

\* C13 (as claimed): a run whose source has no cue block ends in Errored
\* with a FormatError right after parsing, no task dispatched, no file
\* written.
C13_FormatError ==
    (entry = "main" /\ input_exists /\ source = << >>
        /\ pc \notin {"Idle", "Parsing"})
    => /\ pc = "Errored"
       /\ error.type = "FormatError"
       /\ futures = << >>
       /\ files = NoFiles

\* C15: once a write has failed the run is Errored; when the failure was in
\* the SRT loop after srt_i artifacts, exactly those srt_i artifacts are on
\* disk with their content and no document; when it was the document, every
\* subtitle artifact is on disk.
C15_NoRollbackNoContinuation ==
    (entry = "main" /\ error.type = "OSError") =>
        /\ pc = "Errored"
        /\ SrtFiles = {SrtName(translations[j].key) : j \in 1..srt_i}
        /\ \A j \in 1..srt_i :
              files[SrtName(translations[j].key)] = write_srt(translations[j].value)
        /\ DocxName \notin DOMAIN files

\* the second subtitle write failed after the first artifact was written
C15_Witness ==
    /\ entry = "main" /\ pc = "Errored" /\ error.type = "OSError"
    /\ srt_i = 1 /\ Len(translations) = 2
    /\ Cardinality(SrtFiles) = 1

\* the stage of the spec a position of main() belongs to
Stage(p) ==
    CASE p = "Parsing" -> "Idle"
      [] p = "Unwinding" -> "Translating"
      [] OTHER -> p

\* the stage changes of the happy path
StageOrder ==
    { << "Idle", "Parsed" >>, << "Parsed", "Translating" >>,
      << "Translating", "Collected" >>, << "Collected", "WritingSrt" >>,
      << "WritingSrt", "WritingDocument" >>, << "WritingDocument", "Done" >> }

\* a step of main() stays in its stage or moves along StageOrder, or enters
\* Errored from one of the stages `from`; nothing follows Done or Errored;
\* the document is written after every subtitle artifact, Done follows it
StagesFollow(from) ==
    /\ Stage(pc) \notin {"Done", "Errored"}
    /\ \/ Stage(pc') = Stage(pc)
       \/ << Stage(pc), Stage(pc') >> \in StageOrder
       \/ pc' = "Errored" /\ Stage(pc) \in from
    /\ (DocxName \in DOMAIN files' /\ DocxName \notin DOMAIN files) =>
          /\ pc = "WritingDocument"
          /\ \A l \in Range(output_languages) : SrtName(l) \in DOMAIN files
    /\ pc' = "Done" => DocxName \in DOMAIN files'

C19_SourceImmutable ==
    [][ pc \notin {"Idle", "Parsing", "rt_input"} =>
          original_subs' = original_subs ]_vars

\* a run is Done with two buffers made from a source of two cues
C19_Witness ==
    /\ entry = "main" /\ pc = "Done"
    /\ Len(original_subs) = 2
    /\ original_subs = parse_srt(source)
    /\ Len(translations) = 2

\* C20: a run whose input path does not exist never parses, dispatches no
\* task and writes nothing; it ends in Errored with FileNotFoundError.
C20_InputNotFound ==
    (entry = "main" /\ ~input_exists) =>
        /\ pc \in {"Idle", "Errored"}
        /\ pc = "Errored" => error.type = "FileNotFoundError"
        /\ original_subs = << >>
        /\ futures = << >>
        /\ files = NoFiles

C20_Witness ==
    /\ entry = "main" /\ ~input_exists
    /\ pc = "Errored" /\ error.type = "FileNotFoundError"
    /\ Len(source) >= 1

\* C12: a call of polish_texts returns normally a buffer of the length of
\* its input in which every cue whose backend call raised has its
\* pre-polish text, every blank cue has empty text and every other cue has
\* the stripped answer of the backend.
C12_PolishFailureKeepsText ==
    [][ (entry = "lib" /\ pc # "lib_polished" /\ pc' = "lib_polished") =>
          LET lang == output_languages[1]
              before == IF pc = "lib_input" THEN original_subs
                        ELSE DictGet(translations, lang)
              after == DictGet(translations', lang)
          IN  /\ error' = NoException
              /\ Len(after) = Len(before)
              /\ \A i \in DOMAIN before :
                    after[i].text =
                        IF i \in polish_failed' THEN before[i].text
                        ELSE IF Strip(before[i].text) = << >> THEN << >>
                        ELSE Strip(ChatCompletion(before[i].text, lang)) ]_vars

\* the backend failed on the first cue of two and answered for the second
C12_Witness ==
    /\ entry = "lib" /\ pc = "lib_polished"
    /\ polish_failed = {1}
    /\ LET after == DictGet(translations, output_languages[1])
       IN  /\ Len(after) = 2
           /\ after[1].text # << >>
           /\ after[2].text # << >>
           /\ after[2].text # original_subs[2].text

\* a text that is empty or made of whitespace only
Blank(text) == \A j \in DOMAIN text : text[j] \in Whitespace

\* how many times cue i was handed to the backend
CallCount(calls, i) == Cardinality({j \in DOMAIN calls : calls[j] = i})

\* what C18 asks of a translate_lines loop that has produced `translated`
\* from `subtitles` with the backend calls `calls`
BlankShortCircuits(subtitles, translated, calls) ==
    \A i \in DOMAIN subtitles :
        /\ CallCount(calls, i) <= 1
        /\ Blank(subtitles[i].text) => CallCount(calls, i) = 0
        /\ i \in DOMAIN translated =>
              IF Blank(subtitles[i].text)
              THEN translated[i].text = << >>
              ELSE CallCount(calls, i) = 1

\* C18: in every translation task and in every direct call of
\* translate_lines, a cue whose text is empty or whitespace-only gets empty
\* text and no backend call, and every other translated cue was handed to
\* the backend exactly once.
C18_BlankShortCircuits ==
    /\ \A k \in DOMAIN futures :
          BlankShortCircuits(original_subs, futures[k].translated,
                             backend_calls[k])
    /\ (entry = "lib" /\ pc = "lib_translated") =>
          BlankShortCircuits(original_subs,
                             DictGet(translations, output_languages[1]),
                             backend_calls[1])

\* translate_lines returned for a whitespace-only cue followed by a cue
\* with text, having called the backend for the second only
C18_Witness ==
    /\ entry = "lib" /\ pc = "lib_translated"
    /\ Len(original_subs) = 2
    /\ original_subs[1].text = << " " >>
    /\ ~Blank(original_subs[2].text)
    /\ backend_calls = << << 2 >> >>

\* C17 (as claimed): parsing what write_srt wrote for a parsed Cue Sequence
\* gives as many cues, with the same start, end and text at every index.
C17_RoundTrip ==
    (entry = "roundtrip" /\ pc = "rt_reparsed") =>
        /\ Len(reparsed) = Len(original_subs)
        /\ \A i \in DOMAIN reparsed :
              /\ reparsed[i].start = original_subs[i].start
              /\ reparsed[i].end = original_subs[i].end
              /\ reparsed[i].text = original_subs[i].text

\* C14 (as claimed): once cancel was requested no artifact is written, and
\* a run reported as 'Cancelled by user' has not written the combined
\* document, its last artifact.
C14_CancelStopsWriting ==
    [][ entry = "gui" =>
          /\ _kill => files' = files
          /\ runs = 1 /\ reported' = "Cancelled by user" =>
                DocxName \notin DOMAIN files' ]_vars

\* srt_findall finds, in the files made of the source blocks, the matches
\* the runs of main() start from
FindallAgreesWithSources ==
    \A k \in 0..MaxCues :
        \A pick \in { f \in [1..k -> DOMAIN SourceBlocks] :
                        \A i \in 1..(k - 1) : f[i] < f[i + 1] } :
            LET blocks == [i \in 1..k |-> SourceBlocks[pick[i]]]
            IN  srt_findall(RawFile(blocks)) = blocks

\* C21: a direct call of write_docx with requested languages that have no
\* buffer raises nothing but a failure of the save, and the document it
\* saves has, in every data row, an empty cell in the column of each such
\* language and the text of the buffer in the column of every other.
C21_MissingLanguageLeftEmpty ==
    entry = "lib" =>
        /\ pc = "Errored" =>
              error.type \in BackendTypes \cup {"OSError"}
        /\ pc = "lib_docx" =>
              LET doc == files[DocxName]
              IN  /\ Len(doc) = 1 + Len(original_subs)
                  /\ \A i \in DOMAIN original_subs :
                        \A k \in DOMAIN output_languages :
                            doc[i + 1][k + 1] =
                                IF DictHas(translations, output_languages[k])
                                THEN DictGet(translations,
                                             output_languages[k])[i].text
                                ELSE << >>

\* a document saved for two languages, the first translated and the second
\* without a buffer
C21_Witness ==
    /\ entry = "lib" /\ pc = "lib_docx"
    /\ Len(output_languages) = 2
    /\ DictHas(translations, output_languages[1])
    /\ ~DictHas(translations, output_languages[2])
    /\ Len(original_subs) = 2
    /\ files[DocxName][2][2] # << >>
    /\ files[DocxName][2][3] = << >>
    /\ files[DocxName][3][3] = << >>

\* the elements of a set of numbers, smallest first
RECURSIVE Ascending(_)
Ascending(S) ==
    IF S = {} THEN << >>
    ELSE LET m == CHOOSE x \in S : \A y \in S : x <= y
         IN  << m >> \o Ascending(S \ {m})

\* the positions of a file where a line is followed by a timestamp line
BlockStarts(content) ==
    { j \in DOMAIN content :
        /\ j + 5 <= Len(content)
        /\ j = 1 \/ content[j - 1] = "\n"
        /\ content[j + 1] = "\n"
        /\ content[j + 2] \in Timestamps
        /\ content[j + 3] = " --> "
        /\ content[j + 4] \in Timestamps
        /\ content[j + 5] = "\n" }

\* the file has one block per cue of the buffer, in order: the line i, the
\* timestamps of cue i, then its text as one line (empty for an empty
\* text) and an empty line
NumberedFrom1(content, buffer) ==
    LET starts == Ascending(BlockStarts(content))
    IN  /\ Len(starts) = Len(buffer)
        /\ \A i \in DOMAIN starts :
              LET stop == IF i = Len(starts) THEN Len(content)
                          ELSE starts[i + 1] - 1
              IN  /\ content[starts[i]] = ToString(i)
                  /\ content[starts[i] + 2] = buffer[i].start
                  /\ content[starts[i] + 4] = buffer[i].end
                  /\ SubSeq(content, starts[i] + 6, stop) =
                        buffer[i].text \o << "\n", "\n" >>

\* C22: every file write_srt has written numbers its blocks 1, 2, ..., n in
\* the order of the buffer, whatever ordinal the cues carry (the parsed cues
\* written back carry the ordinals of the source, the translated ones carry
\* none), and a cue with empty text is written with an empty text line.
C22_SequentialNumbering ==
    /\ (entry = "roundtrip" /\ pc \in {"rt_written", "rt_reparsed"}) =>
          NumberedFrom1(files[RoundTripName], original_subs)
    /\ entry \in {"main", "gui"} =>
          \A j \in 1..srt_i :
              NumberedFrom1(files[SrtName(translations[j].key)],
                            translations[j].value)

\* write_srt has written two parsed cues, the second with the ordinal 7 and
\* an empty text
C22_Witness ==
    /\ entry = "roundtrip" /\ pc = "rt_written"
    /\ Len(original_subs) = 2
    /\ original_subs[2].num = "7"
    /\ original_subs[2].text = << >>
    /\ LET content == files[RoundTripName]
       IN  /\ content[Len(content) - 7] = "2"
           /\ SubSeq(content, Len(content) - 2, Len(content)) =
                 << "\n", "\n", "\n" >>

\* the workers that are running: the one MainWindow._worker refers to and
\* the ones it no longer refers to
RunningWorkers == orphans + (IF IsRunning THEN 1 ELSE 0)

\* C23 (as claimed): at most one generator worker is running at any time;
\* while one is running the Generate button stays disabled whatever the
\* user does to the file or the list, so no second run can be started, and
\* every running worker is the one Cancel acts on.
C23_SingleRun ==
    entry = "gui" =>
        /\ RunningWorkers <= 1
        /\ orphans = 0
        /\ IsRunning => ~btn_generate

\* C24 (as claimed): the destination languages handed to the generator are
\* language codes of the language list only, in every run; no file name
\* taken from the log of an earlier run is among them.
C24_OnlyLanguageCodes ==
    entry = "gui" =>
        \A k \in DOMAIN output_languages : output_languages[k] \in LANGUAGES

\* C25 (as claimed): the handler of finished_ok puts the run button in the
\* state "done", and once a first run has finished successfully and its
\* signal was handled the button stays "done" until the user changes the
\* file or the list, or starts another run.
C25_DoneUntilInputsChange ==
    [][ entry = "gui" =>
          /\ (signals # << >> /\ Head(signals).name = "finished_ok"
                /\ signals' = Tail(signals)) => state_button' = "done"
          /\ (runs = 1 /\ reported = "finished_ok" /\ signals = << >>
                /\ state_button = "done") =>
                \/ state_button' = "done"
                \/ gestures' # gestures
                \/ runs' # runs ]_vars

====
